---------------------------- MODULE Spec2Model ----------------------------
(***************************************************************************)
(* Evently: the session/role controller (AuthContext.tsx, current variant  *)
(* at lines 241-518), the account/row store it talks to (Supabase auth and *)
(* the users table with the row-level policies of schema.sql), the role    *)
(* guards of the pages, and the event page's ticket purchase.              *)
(*                                                                         *)
(* React state is the committed state: the setState calls a callback makes *)
(* between two awaits are one atomic step (batched).  The handler's await  *)
(* on fetchUserProfile is split in the request (the synchronous prefix),   *)
(* the store serving the select, and the continuation, so that every other *)
(* callback interleaves with it; so is selectRole's await on the update.   *)
(* signUp's await on the insert is one step with its continuation: what    *)
(* interleaves with it does so before the store serves the insert.  A      *)
(* failure of the select does not depend on the store's state and is drawn *)
(* when the continuation runs.                                             *)
(***************************************************************************)
EXTENDS Integers, Sequences, FiniteSets, TLC

\* ------------------------------------------------------------------ bounds
\* controller operations invoked in one run
MaxOps == 1

\* ------------------------------------------------------------------ values
Null == "null"
Roles == {"attendee", "organizer", "admin"}
NoSession == 0
\* account 1 predates the run; signUp creates the next ones
AcctIds == 1..(MaxOps + 1)

AT == "@"
Email1 == <<"a", AT, "x">>
Email2 == <<"b", "c", AT, "x">>
EmptyStr == <<>>
NameA == <<"A">>
StrUser == <<"U", "s", "e", "r">>
StrNewUser == <<"N", "e", "w", " ", "U", "s", "e", "r">>

\* what the sign-up form hands to signUp: Partial<User>
Drafts ==
  { [email |-> EmptyStr, name |-> NameA, organizationName |-> Null, bio |-> Null],
    [email |-> Email2, name |-> EmptyStr, organizationName |-> "Org", bio |-> "Bio"] }

NullUser ==
  [id |-> 0, email |-> EmptyStr, name |-> EmptyStr, role |-> Null,
   organizationName |-> Null, bio |-> Null]

\* the routes of the pages
Home == "/"
Login == "/login"
SignUpRoute == "/sign-up"
Dashboard == "/dashboard"
AttendeeRoute == "/attendee"
OrganizerRoute == "/organizer/[id]"
CreateEventRoute == "/organizer/events/create"
AdminRoute == "/admin"
EventRoute == "/event/[eventId]"
NoPush == "none"
EditEventRoute == "/organizer/events/[eventId]/edit"

\* the venues an event can be booked into, and the row of no event
Venues == {"v1", "v2"}
NoEvent == [organizer_id |-> 0, venue_id |-> Null, venue_booking_status |-> "absent"]
NoPurchase == [status |-> "none"]

\* -------------------------------------------------------------- variables
VARIABLES
  accounts,    \* store: account id -> email, for the accounts that exist
  profiles,    \* store: account id -> users row, for the rows that exist
  session,     \* store: the account of the active session, or NoSession
  events,      \* session-change events emitted and not yet delivered
  handlers,    \* handler runs awaiting fetchUserProfile, in delivery order
  op,          \* the controller operation in flight
  user, role, isLoading,   \* the controller's state
  nOps,        \* operations invoked so far
  lastOp,      \* history: the operation that returned last, and its result
  lastWrite,   \* history: who wrote {user, role} last, and from what
  page,        \* the route the browser shows
  eventRow,    \* store: the events row (venue_id, venue_booking_status)
  pageEvent,   \* EventPage's `event` state: the row as loaded
  dialog,      \* TicketPurchaseDialog: closed, open, or processing
  editForm,    \* EditEventPage's `eventData` state: the row as loaded
  pendingEvents, \* admin settings: whether the event is in the fetched list
  purchase     \* history: the status the store held when a purchase was reported

authVars ==
  <<accounts, profiles, session, events, handlers, op, user, role, isLoading,
    nOps, lastOp, lastWrite>>

shopVars == <<eventRow, pageEvent, dialog, editForm, pendingEvents, purchase>>

vars == <<authVars, page, shopVars>>

Idle == [pc |-> "idle"]

\* what an operation returned: its error, the account and the email it was
\* about, the role it was given and the controller's role when it was called
OpResult(name, error, acct, email, selectedRole, roleAtCall) ==
  [name |-> name, error |-> error, acct |-> acct, email |-> email,
   role |-> selectedRole, roleAtCall |-> roleAtCall]

NoOp == OpResult("none", Null, 0, EmptyStr, Null, Null)

\* ------------------------------------------------------------ pure helpers
\* String.prototype.split('@')[0]: the characters before the first '@'
RECURSIVE SplitAtFirst(_)
SplitAtFirst(s) ==
  IF s = <<>> \/ Head(s) = AT THEN <<>>
  ELSE <<Head(s)>> \o SplitAtFirst(Tail(s))

\* a || b on strings: the empty string is falsy
OrElse(a, b) == IF a = EmptyStr THEN b ELSE a

\* a handler that would take the whole email for the name
MinimalUserWholeEmail(id, email) ==
  [id |-> id, email |-> email, name |-> OrElse(email, StrUser),
   role |-> Null, organizationName |-> Null, bio |-> Null]

\* the record the handler builds when fetchUserProfile returned null
MinimalUser(id, email) ==
  [id |-> id, email |-> email, name |-> OrElse(SplitAtFirst(email), StrUser),
   role |-> Null, organizationName |-> Null, bio |-> Null]

\* fetchUserProfile's mapping of a users row to the application's User
ProfileToUser(id, email, row) ==
  [id |-> id, email |-> email, name |-> row.name, role |-> row.role,
   organizationName |-> row.organization_name, bio |-> row.bio]

\* a signUp that would insert the organizer fields as the draft supplies them
InsertPayloadAsSupplied(draft, selectedRole) ==
  [name |-> OrElse(draft.name, StrNewUser),
   role |-> selectedRole,
   organization_name |-> draft.organizationName,
   bio |-> draft.bio]

\* the row signUp inserts
InsertPayload(draft, selectedRole) ==
  [name |-> OrElse(draft.name, StrNewUser),
   role |-> selectedRole,
   organization_name |-> IF selectedRole = "organizer" THEN draft.organizationName ELSE Null,
   bio |-> IF selectedRole = "organizer" THEN draft.bio ELSE Null]

\* public.is_admin(): the caller's own row has role admin
IsAdmin(uid) == uid \in DOMAIN profiles /\ profiles[uid].role = "admin"

\* the SELECT policies on users: own row, or any row for an admin
CanSelect(uid, target) == uid # NoSession /\ (uid = target \/ IsAdmin(uid))

\* the UPDATE policies on users, USING part
CanUpdateUsing(uid, target) == uid # NoSession /\ (uid = target \/ IsAdmin(uid))

\* the UPDATE policies on users, WITH CHECK part: the own-profile policy keeps
\* the role, the admin policy allows any new row
UpdateCheck(uid, target, newRole) ==
  \/ uid = target /\ newRole = profiles[target].role
  \/ IsAdmin(uid)

\* the INSERT policies on users
CanInsert(uid, target) == uid # NoSession /\ (uid = target \/ IsAdmin(uid))

\* what the store holds for  select ... eq(auth_user_id, a).single()
StoreFetch(a) ==
  IF a \in DOMAIN profiles /\ CanSelect(session, a)
  THEN [kind |-> "row", row |-> profiles[a]]
  ELSE [kind |-> "norows"]

\* how the select can fail instead: an error other than "no rows", or a
\* rejected promise
FetchFailures == {"error", "throw"}

\* what the store answers to  update({role}).eq(auth_user_id, a): an update
\* that matches no visible row is no error
UpdateAnswers(a, newRole) ==
  { IF a \in DOMAIN profiles /\ CanUpdateUsing(session, a)
    THEN IF UpdateCheck(session, a, newRole) THEN "updated" ELSE "error"
    ELSE "nomatch",
    "error" }

\* what the store answers to  insert(payload).select().single()
InsertAnswers(a) ==
  { IF a \notin DOMAIN profiles /\ CanInsert(session, a) THEN "inserted" ELSE "error",
    "error" }

RemoveAt(s, i) == SubSeq(s, 1, i - 1) \o SubSeq(s, i + 1, Len(s))

\* every handler run delivered before position i has been overtaken by a write
Overtake(hs, i) ==
  [j \in 1..Len(hs) |-> IF j < i THEN [hs[j] EXCEPT !.overtaken = TRUE] ELSE hs[j]]

NextAcct == CHOOSE a \in AcctIds : a \notin DOMAIN accounts /\ \A b \in AcctIds : b < a => b \in DOMAIN accounts

\* ------------------------------------------------------------------- Init
\* The provider has mounted: isLoading = true, user = role = null, the
\* subscription is made and the store is about to announce the initial session.
InitRows ==
  { [name |-> NameA, role |-> r,
     organization_name |-> IF r = "organizer" THEN "Org" ELSE Null,
     bio |-> IF r = "organizer" THEN "Bio" ELSE Null] : r \in Roles }

InitAuth ==
  /\ accounts = (1 :> Email1)
  /\ \/ profiles = <<>>
     \/ \E row \in InitRows : profiles = (1 :> row)
  /\ session \in {NoSession, 1}
  /\ events = <<session>>
  /\ handlers = <<>>
  /\ op = Idle
  /\ user = NullUser
  /\ role = Null
  /\ isLoading = TRUE
  /\ nOps = 0
  /\ lastOp = NoOp
  /\ lastWrite = [by |-> "init", stale |-> FALSE, fetch |-> "none"]

\* no event has been created, no page of the event part is open
InitShop ==
  /\ eventRow = NoEvent
  /\ pageEvent = NoEvent
  /\ dialog = [state |-> "closed", user |-> FALSE]
  /\ editForm = NoEvent
  /\ pendingEvents = FALSE
  /\ purchase = NoPurchase

Init == InitAuth /\ page = Home /\ InitShop

\* ---------------------------------------------------- session-change handler
\* onAuthStateChange callback up to its first await
HandleSessionChange ==
  /\ events # <<>>
  /\ events' = Tail(events)
  /\ IF Head(events) # NoSession
     THEN /\ handlers' = Append(handlers, [acct |-> Head(events), res |-> [kind |-> "pending"], overtaken |-> FALSE])
          /\ UNCHANGED <<user, role, isLoading, lastWrite>>
     ELSE /\ user' = NullUser
          /\ role' = Null
          /\ isLoading' = FALSE
          /\ handlers' = Overtake(handlers, Len(handlers) + 1)
          /\ lastWrite' = [by |-> "handler", stale |-> FALSE, fetch |-> "none"]
  /\ UNCHANGED <<accounts, profiles, session, op, nOps, lastOp, page, shopVars>>

\* the store serves the handler's profile select
StoreServeFetch(i) ==
  /\ handlers[i].res.kind = "pending"
  /\ handlers' = [handlers EXCEPT ![i].res = StoreFetch(handlers[i].acct)]
  /\ UNCHANGED <<accounts, profiles, session, events, op, user, role, isLoading,
                 nOps, lastOp, lastWrite, page, shopVars>>

\* fetchUserProfile's result: the User, or NullUser for null
FetchUserProfile(a, res) ==
  IF res.kind = "row" THEN ProfileToUser(a, accounts[a], res.row) ELSE NullUser

\* a handler without the catch: a rejected fetch would count as "no profile"
HandlerUserNoCatch(a, res) ==
  IF res.kind # "throw" /\ FetchUserProfile(a, res) # NullUser
  THEN FetchUserProfile(a, res)
  ELSE MinimalUser(a, accounts[a])

\* the {user, role} the handler writes after the await
HandlerUser(a, res) ==
  IF res.kind = "throw" THEN NullUser
  ELSE IF FetchUserProfile(a, res) # NullUser THEN FetchUserProfile(a, res)
  ELSE MinimalUser(a, accounts[a])

HandlerRole(a, res) ==
  IF res.kind = "throw" THEN Null
  ELSE IF FetchUserProfile(a, res) # NullUser THEN FetchUserProfile(a, res).role
  ELSE Null

\* onAuthStateChange callback after  await fetchUserProfile(session.user):
\* the select has been served (failure = "none") or it fails; the handler
\* writes whatever has been written since the event was delivered
HandlerResume(i, failure) ==
  /\ failure = "none" => handlers[i].res.kind # "pending"
  /\ LET h == handlers[i]
         res == IF failure = "none" THEN h.res ELSE [kind |-> failure]
     IN
       /\ user' = HandlerUser(h.acct, res)
       /\ role' = HandlerRole(h.acct, res)
       /\ lastWrite' = [by |-> "handler", stale |-> h.overtaken, fetch |-> res.kind]
       /\ isLoading' = FALSE
       /\ handlers' = RemoveAt(Overtake(handlers, i), i)
  /\ UNCHANGED <<accounts, profiles, session, events, op, nOps, lastOp, page,
                 shopVars>>

\* ------------------------------------------------------------------ signIn
SignInCall(cred) ==
  /\ op = Idle /\ nOps < MaxOps
  /\ cred \in DOMAIN accounts
  /\ op' = [pc |-> "signIn", cred |-> cred, userAtCall |-> user, roleAtCall |-> role]
  /\ isLoading' = TRUE
  /\ nOps' = nOps + 1
  /\ UNCHANGED <<accounts, profiles, session, events, handlers, user, role,
                 lastOp, lastWrite, page, shopVars>>

\* a signIn that would leave the loading state to an event that never comes
SignInLoadingKept(ok, loading) == loading

\* isLoading after signIn's await: setIsLoading(false) on an error only
SignInLoading(ok, loading) == IF ok THEN loading ELSE FALSE

\* signInWithPassword answers: the credentials were wrong, or the store has
\* opened the session and announces it
SignInReturn(ok) ==
  /\ op.pc = "signIn"
  /\ IF ok
     THEN /\ session' = op.cred
          /\ events' = Append(events, op.cred)
     ELSE UNCHANGED <<session, events>>
  /\ isLoading' = SignInLoading(ok, isLoading)
  /\ lastOp' = OpResult("signIn", IF ok THEN Null ELSE "AuthError", op.cred,
                        accounts[op.cred], Null, Null)
  /\ op' = Idle
  /\ UNCHANGED <<accounts, profiles, handlers, user, role, nOps, lastWrite, page,
                 shopVars>>

\* ------------------------------------------------------------------ signUp
\* a signUp whose failing exits would leave the loading state as it is
SignUpLoadingKept(error, loading) == loading

\* isLoading when signUp returns: setIsLoading(false) before every return of
\* an error, nothing on the successful path
SignUpLoading(error, loading) == IF error # Null THEN FALSE ELSE loading

\* signUp up to  await supabase.auth.signUp: the empty-email exit is taken at once
SignUpCall(draft, selectedRole) ==
  /\ op = Idle /\ nOps < MaxOps
  /\ nOps' = nOps + 1
  /\ IF draft.email = EmptyStr
     THEN /\ isLoading' = SignUpLoading("AuthError", TRUE)
          /\ lastOp' = OpResult("signUp", "AuthError", 0, draft.email, selectedRole, Null)
          /\ UNCHANGED op
     ELSE /\ isLoading' = TRUE
          /\ op' = [pc |-> "signUp_auth", draft |-> draft, role |-> selectedRole]
          /\ UNCHANGED lastOp
  /\ UNCHANGED <<accounts, profiles, session, events, handlers, user, role,
                 lastWrite, page, shopVars>>

\* the store's answers to auth.signUp: an error, no user object, or the new
\* account, signed in (the store then announces the session)
SignUpAuthAnswers(email) ==
  { "error", "nouser" } \cup
  ( IF \A a \in DOMAIN accounts : accounts[a] # email THEN { "created" } ELSE {} )

\* signUp from the answer of auth.signUp to  await insert(...)  or to an exit
SignUpAuthReturn(ans) ==
  /\ op.pc = "signUp_auth"
  /\ ans \in SignUpAuthAnswers(op.draft.email)
  /\ IF ans = "created"
     THEN /\ accounts' = accounts @@ (NextAcct :> op.draft.email)
          /\ session' = NextAcct
          /\ events' = Append(events, NextAcct)
          /\ op' = [pc |-> "signUp_insert", draft |-> op.draft, role |-> op.role,
                    acct |-> NextAcct]
          /\ UNCHANGED <<isLoading, lastOp>>
     ELSE /\ isLoading' = SignUpLoading(ans, isLoading)
          /\ lastOp' = OpResult("signUp",
                                IF ans = "error" THEN "AuthError" ELSE "NoUserObjectAfterSignUp",
                                0, op.draft.email, op.role, Null)
          /\ op' = Idle
          /\ UNCHANGED <<accounts, session, events>>
  /\ UNCHANGED <<profiles, handlers, user, role, nOps, lastWrite, page, shopVars>>

\* signUp's  await insert(...).select().single()  and what follows it: the
\* store serves the insert and the continuation runs; on an insert error it
\* reports ProfileCreationError and leaves the session as it is
SignUpInsertReturn(ans) ==
  /\ op.pc = "signUp_insert"
  /\ ans \in InsertAnswers(op.acct)
  /\ profiles' = IF ans = "inserted"
                 THEN profiles @@ (op.acct :> InsertPayload(op.draft, op.role))
                 ELSE profiles
  /\ isLoading' = SignUpLoading(IF ans = "error" THEN "ProfileCreationError" ELSE Null,
                              isLoading)
  /\ lastOp' = OpResult("signUp",
                        IF ans = "error" THEN "ProfileCreationError" ELSE Null,
                        op.acct, op.draft.email, op.role, Null)
  /\ op' = Idle
  /\ UNCHANGED <<accounts, session, events, handlers, user, role, nOps,
                 lastWrite, page, shopVars>>

\* ------------------------------------------------------------------ logout
LogoutCall ==
  /\ op = Idle /\ nOps < MaxOps
  /\ op' = [pc |-> "logout"]
  /\ isLoading' = TRUE
  /\ nOps' = nOps + 1
  /\ UNCHANGED <<accounts, profiles, session, events, handlers, user, role,
                 lastOp, lastWrite, page, shopVars>>

\* a logout that would reset the user itself, as the earlier variant did
UserAfterLogoutReset(u) == NullUser

\* the user logout leaves: it calls neither setUser nor setRole
UserAfterLogout(u) == u

\* auth.signOut answers: the session is removed and announced, or the call
\* failed and nothing is announced; logout does not look at the answer
LogoutReturn(ok) ==
  /\ op.pc = "logout"
  /\ IF ok
     THEN /\ session' = NoSession
          /\ events' = Append(events, NoSession)
     ELSE UNCHANGED <<session, events>>
  /\ page' = Home
  /\ lastOp' = OpResult("logout", IF ok THEN Null ELSE "AuthError", 0, EmptyStr,
                        Null, Null)
  /\ user' = UserAfterLogout(user)
  /\ op' = Idle
  /\ UNCHANGED <<accounts, profiles, handlers, role, isLoading, nOps,
                 lastWrite, shopVars>>

\* -------------------------------------------------------------- selectRole
\* the route of a role's landing page (the switch on the role)
RolePath(r) ==
  CASE r = "attendee" -> AttendeeRoute
    [] r = "organizer" -> OrganizerRoute
    [] r = "admin" -> AdminRoute
    [] OTHER -> Home

\* a selectRole that would send its update without looking at the user
SelectRoleProceedsAlways(u) == TRUE

\* selectRole's test  if (user)
SelectRoleProceeds(u) == u # NullUser

\* selectRole up to  await update(...): without a user it only warns
SelectRoleCall(selectedRole) ==
  /\ op = Idle /\ nOps < MaxOps
  /\ nOps' = nOps + 1
  /\ IF SelectRoleProceeds(user)
     THEN /\ isLoading' = TRUE
          /\ op' = [pc |-> "selectRole", role |-> selectedRole, acct |-> user.id,
                    userAtCall |-> user, roleAtCall |-> role, ans |-> "pending"]
          /\ UNCHANGED lastOp
     ELSE /\ lastOp' = OpResult("selectRole", "NoUser", 0, EmptyStr, selectedRole, role)
          /\ UNCHANGED <<isLoading, op>>
  /\ UNCHANGED <<accounts, profiles, session, events, handlers, user, role,
                 lastWrite, page, shopVars>>

\* setUser(prevUser => prevUser ? { ...prevUser, role: selectedRole } : null)
WithRole(prevUser, selectedRole) ==
  IF prevUser # NullUser THEN [prevUser EXCEPT !.role = selectedRole] ELSE NullUser

\* the store serves selectRole's  update({role}).eq(auth_user_id, user.id)
StoreServeUpdate(ans) ==
  /\ op.pc = "selectRole"
  /\ ans \in UpdateAnswers(op.acct, op.role)
  /\ profiles' = IF ans = "updated"
                 THEN [profiles EXCEPT ![op.acct].role = op.role]
                 ELSE profiles
  /\ op' = [op EXCEPT !.pc = "selectRole_answered", !.ans = ans]
  /\ UNCHANGED <<accounts, session, events, handlers, user, role, isLoading,
                 nOps, lastOp, lastWrite, page, shopVars>>

\* a selectRole that would write the role whatever the store answered
RoleAfterUpdateOptimistic(ans, selectedRole, current) == selectedRole

\* the role selectRole leaves: setRole(selectedRole) unless the update failed
RoleAfterUpdate(ans, selectedRole, current) ==
  IF ans = "error" THEN current ELSE selectedRole

\* selectRole after the await: an error ends it, anything else is a success
SelectRoleReturn ==
  /\ op.pc = "selectRole_answered"
  /\ role' = RoleAfterUpdate(op.ans, op.role, role)
  /\ IF op.ans = "error"
     THEN UNCHANGED <<user, lastWrite, page>>
     ELSE /\ user' = WithRole(user, op.role)
          /\ lastWrite' = [by |-> "selectRole", stale |-> FALSE, fetch |-> "none"]
          /\ page' = RolePath(op.role)
  /\ handlers' = IF op.ans = "error" THEN handlers
                 ELSE Overtake(handlers, Len(handlers) + 1)
  /\ isLoading' = FALSE
  /\ lastOp' = OpResult("selectRole",
                        IF op.ans = "error" THEN "RoleUpdateError" ELSE Null,
                        op.acct, EmptyStr, op.role, op.roleAtCall)
  /\ op' = Idle
  /\ UNCHANGED <<accounts, profiles, session, events, nOps, shopVars>>

\* ------------------------------------------------------------- environment
\* the store announces a session change nobody here asked for: the session
\* ended (it expired, or the account signed out in another tab)
StoreSessionEnds ==
  /\ session # NoSession
  /\ session' = NoSession
  /\ events' = Append(events, NoSession)
  /\ UNCHANGED <<accounts, profiles, handlers, op, user, role, isLoading, nOps,
                 lastOp, lastWrite, page, shopVars>>

\* the admin's edit-user form saves a row: role, and the organizer fields
\* only for an organizer
AdminRow(row, newRole) ==
  [name |-> row.name, role |-> newRole,
   organization_name |-> IF newRole = "organizer" THEN row.organization_name ELSE Null,
   bio |-> IF newRole = "organizer" THEN row.bio ELSE Null]

\* AdminEditUserPage.handleSubmit, by the signed-in admin on the row of `target`
AdminEditUser(target, newRole) ==
  /\ ~isLoading /\ user # NullUser /\ role = "admin"
  /\ target \in DOMAIN profiles
  /\ CanUpdateUsing(session, target) /\ IsAdmin(session)
  /\ profiles[target].role # newRole
  /\ profiles' = [profiles EXCEPT ![target] = AdminRow(profiles[target], newRole)]
  /\ UNCHANGED <<accounts, session, events, handlers, op, user, role, isLoading,
                 nOps, lastOp, lastWrite, page, shopVars>>

Next ==
  \/ HandleSessionChange
  \/ \E i \in 1..Len(handlers) : StoreServeFetch(i)
  \/ \E i \in 1..Len(handlers), f \in {"none"} \cup FetchFailures : HandlerResume(i, f)
  \/ \E c \in AcctIds : SignInCall(c)
  \/ \E ok \in BOOLEAN : SignInReturn(ok)
  \/ \E d \in Drafts, r \in Roles : SignUpCall(d, r)
  \/ \E ans \in {"error", "nouser", "created"} : SignUpAuthReturn(ans)
  \/ \E ans \in {"inserted", "error"} : SignUpInsertReturn(ans)
  \/ LogoutCall
  \/ \E ok \in BOOLEAN : LogoutReturn(ok)
  \/ \E r \in Roles : SelectRoleCall(r)
  \/ \E ans \in {"updated", "nomatch", "error"} : StoreServeUpdate(ans)
  \/ SelectRoleReturn
  \/ StoreSessionEnds
  \/ \E a \in AcctIds, r \in Roles : AdminEditUser(a, r)

Spec == Init /\ [][Next]_vars

\* Every await resolves and every delivered event is handled: the store
\* answers each request, and each continuation runs once its answer is there.
\* Nothing obliges the user to call an operation.
Fairness ==
  /\ WF_vars(HandleSessionChange)
  /\ WF_vars(\E i \in 1..Len(handlers) : StoreServeFetch(i))
  /\ WF_vars(\E i \in 1..Len(handlers) : HandlerResume(i, "none"))
  /\ WF_vars(\E ok \in BOOLEAN : SignInReturn(ok))
  /\ WF_vars(\E ans \in {"error", "nouser", "created"} : SignUpAuthReturn(ans))
  /\ WF_vars(\E ans \in {"inserted", "error"} : SignUpInsertReturn(ans))
  /\ WF_vars(\E ok \in BOOLEAN : LogoutReturn(ok))
  /\ WF_vars(\E ans \in {"updated", "nomatch", "error"} : StoreServeUpdate(ans))
  /\ WF_vars(SelectRoleReturn)

FairSpec == Init /\ [][Next]_vars /\ Fairness

\* --------------------------------------------- a settled tab, session renewed
\* The controller has settled on the signed-in account 1 (its fetch was served
\* or failed with an error) and the store announces the running session once
\* more, as it does when it renews the token: the callback takes every event.
RefreshInit ==
  /\ accounts = (1 :> Email1)
  /\ \/ profiles = <<>>
     \/ \E row \in InitRows : profiles = (1 :> row)
  /\ session = 1
  /\ events = <<session>>
  /\ handlers = <<>>
  /\ op = Idle
  /\ \E res \in {StoreFetch(1), [kind |-> "error"]} :
       /\ user = HandlerUser(1, res)
       /\ role = HandlerRole(1, res)
       /\ lastWrite = [by |-> "handler", stale |-> FALSE, fetch |-> res.kind]
  /\ isLoading = FALSE
  /\ nOps = 0
  /\ lastOp = NoOp
  /\ page = Home
  /\ InitShop

RefreshSpec == RefreshInit /\ [][Next]_vars

\* ------------------------------------------------------------- page guards
\* the role a role-gated page requires
GuardedPages == {AdminRoute, CreateEventRoute, AttendeeRoute, Dashboard, SignUpRoute}
RequiredRole(p) ==
  CASE p = AdminRoute -> "admin"
    [] p = CreateEventRoute -> "organizer"
    [] p = AttendeeRoute -> "attendee"
    [] p = EditEventRoute -> "organizer"
    [] OTHER -> Null

\* a guard that would not wait for the controller to settle
RoleGuardUnsettled(required, u, r, loading) ==
  IF u = NullUser \/ r # required THEN Login ELSE NoPush

\* the guard effect of a role-gated page: where it pushes, or NoPush
RoleGuard(required, u, r, loading) ==
  IF ~loading /\ (u = NullUser \/ r # required) THEN Login ELSE NoPush

\* DashboardPage's effect
DashboardGuard(u, r, loading) ==
  IF ~loading /\ u = NullUser THEN Login
  ELSE IF ~loading /\ u # NullUser /\ r # Null THEN RolePath(r)
  ELSE NoPush

\* the sign-up page's effect
SignUpGuard(u, r, loading) ==
  IF ~loading /\ u # NullUser
  THEN IF r # Null THEN RolePath(r) ELSE Dashboard
  ELSE NoPush

GuardTarget(p) ==
  CASE p = Dashboard -> DashboardGuard(user, role, isLoading)
    [] p = SignUpRoute -> SignUpGuard(user, role, isLoading)
    [] OTHER -> RoleGuard(RequiredRole(p), user, role, isLoading)

\* the effect of page p runs on the committed controller state and redirects
GuardEffect(p) ==
  /\ page = p
  /\ GuardTarget(p) # NoPush
  /\ page' = GuardTarget(p)
  /\ UNCHANGED <<authVars, shopVars>>

\* the visitor opened one of the role-gated pages
PageInit == InitAuth /\ page \in GuardedPages /\ InitShop

PageNext ==
  \/ Next
  \/ \E p \in GuardedPages : GuardEffect(p)

PageSpec == PageInit /\ [][PageNext]_vars

\* ------------------------------------------------- the pages' data fetches
\* the fetches that the effects of the role-gated pages start
FetchNames == {"venues", "event", "events"}

PageFetches(p) ==
  CASE p = CreateEventRoute -> {"venues"}
    [] p = EditEventRoute -> {"venues", "event"}
    [] p = AttendeeRoute -> {"events"}
    [] OTHER -> {}

\* the condition under which the effect calls its fetch
FetchGate(f, u, r, loading) ==
  CASE f = "venues" -> r = "organizer"
    [] f = "event" -> ~loading /\ u # NullUser /\ r = "organizer"
    [] f = "events" -> u # NullUser /\ r = "attendee"

\* this step gave `user` a new identity: setUser was called with an object
UserDepChanged ==
  \/ user' # user
  \/ /\ user' # NullUser
     /\ \/ \E i \in 1..Len(handlers), x \in {"none"} \cup FetchFailures : HandlerResume(i, x)
        \/ SelectRoleReturn /\ op.ans # "error"

\* this step changed a dependency of the effect that starts fetch f
DepsChanged(f) ==
  CASE f = "venues" -> role' # role
    [] f = "event" -> UserDepChanged \/ role' # role \/ isLoading' # isLoading
    [] f = "events" -> UserDepChanged \/ role' # role

\* this step starts fetch f: React runs an effect after the render that
\* mounts its page and after each render in which a dependency changed
FetchStarts(f) ==
  /\ f \in PageFetches(page')
  /\ page' # page \/ DepsChanged(f)
  /\ FetchGate(f, user', role', isLoading')

\* the pages with such fetches; a link or the address bar opens one of them
NavPages == {CreateEventRoute, EditEventRoute, AttendeeRoute}

Navigate(p) ==
  /\ page # p
  /\ page' = p
  /\ UNCHANGED <<authVars, shopVars>>

NavNext ==
  \/ Next
  \/ \E p \in NavPages : GuardEffect(p)
  \/ \E p \in NavPages : Navigate(p)

NavSpec == Init /\ [][NavNext]_vars

\* ------------------------------------------------- events, venues, tickets
\* Who uses an organizer's page: the {user, role, isLoading} its controller
\* shows, and whether the page is in this tab. ThisTab is the tab of the
\* controller modelled here; OwnerTab is the settled tab of the organizer
\* (account 2) in another browser.
ThisTab == [user |-> user, role |-> role, loading |-> isLoading, here |-> TRUE]

OwnerTab ==
  [user |-> [id |-> 2, email |-> Email2, name |-> NameA, role |-> "organizer",
             organizationName |-> "Org", bio |-> "Bio"],
   role |-> "organizer", loading |-> FALSE, here |-> FALSE]

\* the page p of `who` is mounted: in this tab it is the route shown
Mounted(who, p) == who.here => page = p

\* router.push(target) in the tab of `who`: `page` is this tab's route
Push(who, target) == IF who.here /\ target # NoPush THEN target ELSE page

\* CreateEventPage.onSubmit: the insert carries no venue_booking_status
CreateEvent(who, venue) ==
  /\ eventRow = NoEvent
  /\ Mounted(who, CreateEventRoute)
  /\ who.user # NullUser /\ who.role = "organizer"
  /\ eventRow' = [organizer_id |-> who.user.id, venue_id |-> venue,
                  venue_booking_status |-> Null]
  /\ page' = Push(who, OrganizerRoute)
  /\ UNCHANGED <<authVars, pageEvent, dialog, editForm, pendingEvents, purchase>>

\* EventPage's effect: it loads the row once and keeps it as `event`
EventPageLoad ==
  /\ eventRow # NoEvent
  /\ pageEvent' = eventRow
  /\ dialog' = [state |-> "closed", user |-> FALSE]
  /\ UNCHANGED <<authVars, page, eventRow, editForm, pendingEvents, purchase>>

\* EventPage: canPurchaseTickets
CanPurchaseTickets(event) ==
  \/ event.venue_booking_status = "approved"
  \/ event.venue_booking_status = "not_requested"
  \/ event.venue_booking_status = Null

\* EventPage: the Purchase Tickets button's `disabled`
PurchaseDisabled(event) ==
  \/ ~CanPurchaseTickets(event)
  \/ event.venue_booking_status = "pending"
  \/ event.venue_booking_status = "rejected"

\* the button's onClick
OpenPurchaseDialog ==
  /\ pageEvent # NoEvent
  /\ dialog.state = "closed"
  /\ ~PurchaseDisabled(pageEvent)
  /\ dialog' = [state |-> "open", user |-> FALSE]
  /\ UNCHANGED <<authVars, page, eventRow, pageEvent, editForm, pendingEvents, purchase>>

\* TicketPurchaseDialog.onSubmit up to the simulated payment delay; `user`
\* is the one of the render the form was submitted in
DialogSubmit ==
  /\ dialog.state = "open"
  /\ dialog' = [state |-> "processing", user |-> user # NullUser]
  /\ UNCHANGED <<authVars, page, eventRow, pageEvent, editForm, pendingEvents, purchase>>

\* TicketPurchaseDialog.onSubmit after the delay: without a user it returns,
\* else it builds the confirmed record, reports success and closes
DialogFinish ==
  /\ dialog.state = "processing"
  /\ IF dialog.user
     THEN /\ purchase' = [status |-> eventRow.venue_booking_status]
          /\ dialog' = [state |-> "closed", user |-> FALSE]
     ELSE /\ dialog' = [state |-> "open", user |-> FALSE]
          /\ UNCHANGED purchase
  /\ UNCHANGED <<authVars, page, eventRow, pageEvent, editForm, pendingEvents>>

\* EditEventPage: the condition of the effect that calls fetchEventData
EditMayFetch(who) ==
  ~who.loading /\ who.user # NullUser /\ who.role = "organizer"

\* a fetchEventData that would hand any organizer the row
EditFetchResultAnyone(who, row) == [eventData |-> row, push |-> NoPush]

\* EditEventPage.fetchEventData: what it keeps as eventData and where it
\* pushes, for the row the store returned
EditFetchResult(who, row) ==
  IF row = NoEvent THEN [eventData |-> NoEvent, push |-> NoPush]
  ELSE IF row.organizer_id # who.user.id
       THEN [eventData |-> NoEvent, push |-> OrganizerRoute]
       ELSE [eventData |-> row, push |-> NoPush]

\* EditEventPage's effect and fetchEventData
EditFormLoad(who) ==
  /\ eventRow # NoEvent
  /\ Mounted(who, EditEventRoute)
  /\ EditMayFetch(who)
  /\ editForm' = EditFetchResult(who, eventRow).eventData
  /\ page' = Push(who, EditFetchResult(who, eventRow).push)
  /\ UNCHANGED <<authVars, eventRow, pageEvent, dialog, pendingEvents, purchase>>

\* a save that would send the loaded status whatever happened to the venue
NewVenueBookingStatusAsLoaded(eventData, actualVenueId) ==
  eventData.venue_booking_status

\* EditEventPage.onSubmit: newVenueBookingStatus
NewVenueBookingStatus(eventData, actualVenueId) ==
  IF actualVenueId # eventData.venue_id
  THEN IF actualVenueId # Null THEN "pending" ELSE "not_requested"
  ELSE IF actualVenueId # Null /\ eventData.venue_booking_status = Null
       THEN "pending"
       ELSE eventData.venue_booking_status

\* EditEventPage.onSubmit: the two tests before anything is sent
EditMaySubmit(who, eventData) ==
  /\ who.user # NullUser /\ who.role = "organizer" /\ eventData # NoEvent
  /\ eventData.organizer_id = who.user.id

\* EditEventPage.onSubmit: the update, then the push off the form
EditSave(who, actualVenueId) ==
  /\ editForm # NoEvent
  /\ Mounted(who, EditEventRoute)
  /\ EditMaySubmit(who, editForm)
  /\ eventRow' = [eventRow EXCEPT
                    !.venue_id = actualVenueId,
                    !.venue_booking_status = NewVenueBookingStatus(editForm, actualVenueId)]
  /\ editForm' = NoEvent
  /\ page' = Push(who, OrganizerRoute)
  /\ UNCHANGED <<authVars, pageEvent, dialog, pendingEvents, purchase>>

\* admin settings: the filter of fetchPendingVenueApprovals
IsPendingApproval(event) ==
  event.venue_id # Null /\ event.venue_booking_status = "pending"

\* admin settings: fetchPendingVenueApprovals
FetchPendingVenueApprovals ==
  /\ pendingEvents' = IsPendingApproval(eventRow)
  /\ pendingEvents' # pendingEvents
  /\ UNCHANGED <<authVars, page, eventRow, pageEvent, dialog, editForm, purchase>>

\* admin settings: handleApprovalAction on a listed event, and its refetch
HandleApprovalAction(newStatus) ==
  /\ pendingEvents
  /\ eventRow' = [eventRow EXCEPT !.venue_booking_status = newStatus]
  /\ pendingEvents' = IsPendingApproval(eventRow')
  /\ UNCHANGED <<authVars, page, pageEvent, dialog, editForm, purchase>>

\* an attendee who is signed in and settled, or a settled visitor
SettledAttendee ==
  /\ accounts = (1 :> Email1)
  /\ \E row \in InitRows :
       /\ row.role = "attendee"
       /\ profiles = (1 :> row)
       /\ \/ session = 1 /\ user = ProfileToUser(1, Email1, row) /\ role = row.role
             /\ lastWrite = [by |-> "handler", stale |-> FALSE, fetch |-> "row"]
          \/ session = NoSession /\ user = NullUser /\ role = Null
             /\ lastWrite = [by |-> "handler", stale |-> FALSE, fetch |-> "none"]
  /\ events = <<>>
  /\ handlers = <<>>
  /\ op = Idle
  /\ isLoading = FALSE
  /\ nOps = 0
  /\ lastOp = NoOp

EventInit == SettledAttendee /\ page = EventRoute /\ InitShop

EventNext ==
  \/ \E v \in Venues \cup {Null} : CreateEvent(OwnerTab, v)
  \/ EventPageLoad
  \/ OpenPurchaseDialog
  \/ DialogSubmit
  \/ DialogFinish
  \/ EditFormLoad(OwnerTab)
  \/ \E v \in Venues \cup {Null} : EditSave(OwnerTab, v)
  \/ FetchPendingVenueApprovals
  \/ \E st \in {"approved", "rejected"} : HandleApprovalAction(st)

EventSpec == EventInit /\ [][EventNext]_vars

\* --------------------------------------- the edit page in a living session
\* this tab shows the edit page of an event that exists in the store and
\* belongs to account 1 or to account 2
StoredEvents ==
  { [organizer_id |-> o, venue_id |-> "v1", venue_booking_status |-> "pending"] :
      o \in {1, 2} }

EditInit ==
  /\ InitAuth
  /\ page = EditEventRoute
  /\ eventRow \in StoredEvents
  /\ pageEvent = NoEvent
  /\ dialog = [state |-> "closed", user |-> FALSE]
  /\ editForm = NoEvent
  /\ pendingEvents = FALSE
  /\ purchase = NoPurchase

EditNext ==
  \/ Next
  \/ GuardEffect(EditEventRoute)
  \/ EditFormLoad(ThisTab)
  \/ \E v \in Venues \cup {Null} : EditSave(ThisTab, v)

EditSpec == EditInit /\ [][EditNext]_vars

\* --------------------------------------- the event page in a living session
\* the visitor's tab shows the event page while the controller runs; the
\* event is created by its organizer elsewhere
PurchaseInit == InitAuth /\ page = EventRoute /\ InitShop

PurchaseNext ==
  \/ Next
  \/ \E v \in Venues \cup {Null} : CreateEvent(OwnerTab, v)
  \/ EventPageLoad
  \/ OpenPurchaseDialog
  \/ DialogSubmit
  \/ DialogFinish

PurchaseSpec == PurchaseInit /\ [][PurchaseNext]_vars

\* ------------------------------------------------------------------ claims
\* no operation is in flight, no event is undelivered, no handler run pending
Quiescent == op = Idle /\ events = <<>> /\ handlers = <<>>

\* the role a select of the account's row yields for the controller
RefetchRole(a) == HandlerRole(a, StoreFetch(a))

\* the characters of an email before its first '@'
LocalPart(e) ==
  CHOOSE p \in { SubSeq(e, 1, k) : k \in 0..Len(e) } :
    /\ \A j \in 1..Len(p) : p[j] # AT
    /\ Len(p) = Len(e) \/ e[Len(p) + 1] = AT

\* C1: no guard of a role-gated page (the admin, organizer and attendee
\* pages, the dashboard, the sign-up page) pushes a route while isLoading is
\* true
C1_NoRedirectWhileLoading ==
  [][\A p \in GuardedPages : GuardEffect(p) => ~isLoading]_vars

\* a guard has pushed a visitor with the wrong role to /login
C1_Witness == page = Login /\ user # NullUser /\ ~isLoading

\* C2: after a signUp that created the account and inserted the row has
\* returned and every event and fetch it caused is done (none of them
\* failed, none was overtaken), isLoading is false, user.email is the
\* draft's email and role is the role signUp was given
C2_SignUpSettlesToProfile ==
  ( /\ Quiescent
    /\ lastOp.name = "signUp" /\ lastOp.error = Null
    /\ session = lastOp.acct
    /\ lastWrite.fetch \notin FetchFailures /\ ~lastWrite.stale )
  => ( /\ ~isLoading
       /\ user.email = lastOp.email
       /\ role = lastOp.role )

\* C3: when signUp has returned ProfileCreationError, the store holds no
\* active session for the account it created
C3_FailedInsertSignsOut ==
  ( op = Idle /\ lastOp.name = "signUp" /\ lastOp.error = "ProfileCreationError" )
  => session # lastOp.acct

\* C4: with isLoading false and an active session in the store (nothing in
\* flight, no fetch failed), user is non-null and role is the role of the
\* account's row, or null without a row
C4_SettledStateMatchesProfile ==
  ( /\ ~isLoading /\ session # NoSession
    /\ Quiescent /\ lastWrite.fetch \notin FetchFailures )
  => ( /\ user # NullUser
       /\ role = IF session \in DOMAIN profiles THEN profiles[session].role ELSE Null )

\* C5: a handler run never writes {user, role} after the write of an event
\* delivered later than its own
C5_NoStaleHandlerWrite == ~(lastWrite.by = "handler" /\ lastWrite.stale)

\* C6: once an operation has returned and every event has been handled,
\* isLoading is false
C6_LoadingEndsAfterOps == (lastOp.name # "none" /\ Quiescent) => ~isLoading

\* C7: when selectRole(r) ends in success and sets role = r, with the
\* session of its account active and loaded without a failed fetch, a
\* select of the account's row yields role r too, with or without a row
C7_SelectedRoleSurvivesRefetch ==
  [][\A a \in AcctIds :
       ( /\ SelectRoleReturn /\ op.ans # "error"
         /\ a = op.acct /\ session = a
         /\ lastWrite.fetch \notin FetchFailures )
       => RefetchRole(a)' = role']_vars

\* C8: a purchase is reported successful only while the store holds the
\* venue_booking_status approved, not_requested or null for the event
C8_PurchaseOnlyWhenBookable ==
  purchase = NoPurchase \/ purchase.status \in {"approved", "not_requested", Null}

\* C9: a handler run for an active account whose select reported no rows
\* ends with isLoading false, role null and user = {id, email, name}, the
\* name being the email up to its '@'; this is not the initial state
C9_NoRowsSettlesMinimal ==
  [][\A i \in 1..Len(handlers) :
       ( HandlerResume(i, "none") /\ handlers[i].res.kind = "norows" )
       => ( /\ ~isLoading'
            /\ role' = Null
            /\ user' # NullUser
            /\ user'.id = handlers[i].acct
            /\ user'.email = accounts[handlers[i].acct]
            /\ user'.name = LocalPart(accounts[handlers[i].acct])
            /\ user'.role = Null )]_vars

\* the handler has settled account 1, which has no row
C9_Witness ==
  /\ lastWrite.by = "handler" /\ lastWrite.fetch = "norows"
  /\ ~isLoading /\ role = Null
  /\ user.id = 1 /\ user.email = Email1 /\ user.name = <<"a">>

\* C10: selectRole(r) called with a user and role null, the row updated:
\* role = r and user.role = r when the call completes
C10_SelectRoleSetsUserRole ==
  [][( SelectRoleReturn /\ op.ans = "updated" /\ op.roleAtCall = Null )
     => ( role' = op.role /\ user' # NullUser /\ user'.role = op.role )]_vars

\* C11 (as claimed): when the store rejects signIn's credentials, signIn
\* returns the error with isLoading false and user and role are what they
\* were before the call
C11_RejectedSignInRestoresState ==
  [][SignInReturn(FALSE)
     => ( /\ lastOp'.error = "AuthError" /\ ~isLoading'
          /\ user' = op.userAtCall /\ role' = op.roleAtCall )]_vars

\* C11 (amended): when the store rejects signIn's credentials, signIn
\* returns the error with isLoading false and writes neither user nor role
\* itself; they differ from their values before the call only by the write
\* of a session-change handler that ran during the call
C11_RejectedSignInWritesNothing ==
  [][SignInReturn(FALSE)
     => ( /\ lastOp'.name = "signIn" /\ lastOp'.error = "AuthError"
          /\ ~isLoading'
          /\ user' = user /\ role' = role
          /\ (user' # op.userAtCall \/ role' # op.roleAtCall)
               => lastWrite.by = "handler" )]_vars

\* a rejected signIn has returned to a signed-in, settled user
C11_Witness ==
  /\ op = Idle /\ lastOp.name = "signIn" /\ lastOp.error = "AuthError"
  /\ ~isLoading /\ user # NullUser /\ session = user.id

\* C12: when signIn's credential check succeeds, isLoading has stayed true
\* since the call (and stays so until the handler of the resulting event
\* has finished)
C12_LoadingHeldUntilSignInAnswered ==
  [][SignInReturn(TRUE) => (isLoading /\ isLoading')]_vars

\* C13: a profile fetch that a handler started before selectRole(r) succeeded
\* and that resolves after selectRole's write leaves role and user.role at r
\* (checked where the store holds r for the account)
C13_StaleFetchKeepsSelectedRole ==
  [][\A i \in 1..Len(handlers) :
       ( /\ HandlerResume(i, "none")
         /\ handlers[i].overtaken
         /\ lastWrite.by = "selectRole"
         /\ lastOp.name = "selectRole" /\ lastOp.error = Null
         /\ handlers[i].acct = lastOp.acct
         /\ lastOp.acct \in DOMAIN profiles
         /\ profiles[lastOp.acct].role = lastOp.role )
       => (role' = lastOp.role /\ user'.role = lastOp.role)]_vars

\* C14: after logout is called, isLoading eventually is false again, also
\* when the sign-out fails or no session-change event follows
C14_LogoutReleasesLoading == (op.pc = "logout") ~> ~isLoading

\* C15: a role-gated page starts a data fetch gated on identity only while
\* isLoading is false, user is non-null and role is the page's required role
C15_FetchOnlyWhenSettled ==
  [][\A f \in FetchNames :
       FetchStarts(f)
       => (~isLoading' /\ user' # NullUser /\ role' = RequiredRole(page'))]_vars

\* C16: once isLoading is false, with user null or role other than the
\* required one, a role-gated page redirects: to the role-selection surface
\* when user is non-null and role is null, to /login otherwise
C16_GuardRedirectTarget ==
  [][\A p \in {q \in GuardedPages : RequiredRole(q) # Null} :
       GuardEffect(p)
       => page' = IF user # NullUser /\ role = Null THEN Dashboard ELSE Login]_vars

\* C17: when the handler's profile fetch for the active account fails with
\* an error other than "no rows", the handler settles with user = null,
\* role = null and isLoading = false
C17_FetchErrorSettlesSignedOut ==
  [][\A i \in 1..Len(handlers) :
       HandlerResume(i, "error")
       => (user' = NullUser /\ role' = Null /\ ~isLoading')]_vars

\* C18: signUp returns with isLoading false on every failing exit (empty
\* email, account creation refused, no account object, profile insert
\* refused); only on the fully successful path does it leave isLoading as it
\* is, for the session-change handler to release
C18_SignUpLoadingOnExit ==
  [][ /\ \A d \in Drafts, r \in Roles :
           (SignUpCall(d, r) /\ d.email = EmptyStr)
           => (lastOp'.name = "signUp" /\ lastOp'.error # Null /\ ~isLoading')
      /\ \A ans \in {"error", "nouser"} :
           SignUpAuthReturn(ans)
           => (lastOp'.name = "signUp" /\ lastOp'.error # Null /\ ~isLoading')
      /\ SignUpInsertReturn("error")
           => (lastOp'.name = "signUp" /\ lastOp'.error # Null /\ ~isLoading')
      /\ SignUpInsertReturn("inserted")
           => (lastOp'.error = Null /\ isLoading' = isLoading)
      /\ (lastOp' # lastOp /\ lastOp'.name = "signUp" /\ isLoading')
           => lastOp'.error = Null ]_vars

\* signUp has returned ProfileCreationError for the account it created
C18_Witness ==
  /\ op = Idle /\ lastOp.name = "signUp" /\ lastOp.error = "ProfileCreationError"
  /\ session = lastOp.acct /\ ~isLoading

\* C19 (as claimed): when the store rejects selectRole's update, user and
\* role after the call are what they were before the call, isLoading is
\* false again and the error is reported
C19_RejectedSelectRoleRestoresState ==
  [][(SelectRoleReturn /\ op.ans = "error")
     => ( /\ lastOp'.error = "RoleUpdateError" /\ ~isLoading'
          /\ user' = op.userAtCall /\ role' = op.roleAtCall )]_vars

\* C19 (amended): when the store rejects selectRole's update, selectRole
\* writes neither user nor role, sets isLoading false and reports the error;
\* user and role differ from their values before the call only by the write
\* of a session-change handler that ran during the call
C19_RejectedSelectRoleWritesNothing ==
  [][(SelectRoleReturn /\ op.ans = "error")
     => ( /\ lastOp'.name = "selectRole" /\ lastOp'.error = "RoleUpdateError"
          /\ ~isLoading'
          /\ user' = user /\ role' = role /\ page' = page
          /\ (user' # op.userAtCall \/ role' # op.roleAtCall)
               => lastWrite.by = "handler" )]_vars

\* a rejected selectRole has returned and the role is not the one asked for
C19_Witness ==
  /\ op = Idle /\ lastOp.name = "selectRole" /\ lastOp.error = "RoleUpdateError"
  /\ ~isLoading /\ user # NullUser /\ role = lastOp.roleAtCall /\ role # lastOp.role

\* C20: once a user's role is non-null, no selectRole call by that user
\* changes the stored role of their row or the controller's role
C20_RoleSelectedOnce ==
  [][ /\ \A ans \in {"updated", "nomatch", "error"} :
           (StoreServeUpdate(ans) /\ op.acct \in DOMAIN profiles)
           => profiles'[op.acct].role = profiles[op.acct].role
      /\ (SelectRoleReturn /\ op.roleAtCall # Null /\ role # Null)
           => role' = role ]_vars

\* C21: user and role are assigned only by the session-change handler and by
\* the success path of selectRole; no step of signIn, signUp or logout
\* assigns either
C21_OnlyHandlerAndSelectRoleWrite ==
  [][ /\ (user' # user \/ role' # role)
           => \/ HandleSessionChange
              \/ \E i \in 1..Len(handlers), f \in {"none"} \cup FetchFailures :
                   HandlerResume(i, f)
              \/ SelectRoleReturn /\ op.ans # "error"
      /\ ( \/ \E c \in AcctIds : SignInCall(c)
           \/ \E ok \in BOOLEAN : SignInReturn(ok)
           \/ \E d \in Drafts, r \in Roles : SignUpCall(d, r)
           \/ \E ans \in {"error", "nouser", "created"} : SignUpAuthReturn(ans)
           \/ \E ans \in {"inserted", "error"} : SignUpInsertReturn(ans)
           \/ LogoutCall
           \/ \E ok \in BOOLEAN : LogoutReturn(ok) )
           => (user' = user /\ role' = role) ]_vars

\* logout has returned after a successful sign-out and the user it found is
\* still there, until the handler takes it away
C21_Witness ==
  /\ op = Idle /\ lastOp.name = "logout" /\ lastOp.error = Null
  /\ session = NoSession /\ user # NullUser /\ role # Null

\* C22: selectRole called while user is null sends nothing to the store and
\* changes none of user, role and isLoading
C22_SelectRoleWithoutUserIsNoOp ==
  [][\A r \in Roles :
       (SelectRoleCall(r) /\ user = NullUser)
       => ( /\ op' = Idle /\ profiles' = profiles
            /\ user' = user /\ role' = role /\ isLoading' = isLoading
            /\ page' = page )]_vars

\* selectRole was called without a user while the controller was loading
C22_Witness ==
  /\ op = Idle /\ lastOp.name = "selectRole" /\ lastOp.error = "NoUser"
  /\ user = NullUser /\ isLoading

\* C23: the row signUp inserts carries the draft's organizationName and bio
\* only for the role organizer; for attendee and admin both are null, also
\* when the draft supplies them
C23_OrganizerFieldsNormalised ==
  [][SignUpInsertReturn("inserted")
     => ( /\ op.acct \in DOMAIN profiles'
          /\ profiles'[op.acct].role = op.role
          /\ profiles'[op.acct].organization_name =
               IF op.role = "organizer" THEN op.draft.organizationName ELSE Null
          /\ profiles'[op.acct].bio =
               IF op.role = "organizer" THEN op.draft.bio ELSE Null )]_vars

\* signUp has inserted an attendee's row from a draft that supplied an
\* organization and a bio
C23_Witness ==
  /\ lastOp.name = "signUp" /\ lastOp.error = Null /\ lastOp.role = "attendee"
  /\ \E d \in Drafts :
       d.email = lastOp.email /\ d.organizationName # Null /\ d.bio # Null
  /\ lastOp.acct \in DOMAIN profiles
  /\ profiles[lastOp.acct].organization_name = Null
  /\ profiles[lastOp.acct].bio = Null

\* C24: every run of the session-change handler ends with isLoading false,
\* also when the profile fetch throws, and then with user and role both
\* null; what it writes is a consistent pair (no role without a user, and
\* the user's role is the role)
C24_HandlerEndsSettled ==
  [][ /\ (HandleSessionChange /\ Head(events) = NoSession)
           => (~isLoading' /\ user' = NullUser /\ role' = Null)
      /\ \A i \in 1..Len(handlers), f \in {"none"} \cup FetchFailures :
           HandlerResume(i, f)
           => ( /\ ~isLoading'
                /\ f = "throw" => (user' = NullUser /\ role' = Null)
                /\ user' = NullUser => role' = Null
                /\ user' # NullUser => user'.role = role' ) ]_vars

\* a handler run whose fetch threw has ended, the session still open
C24_Witness ==
  /\ lastWrite.by = "handler" /\ lastWrite.fetch = "throw"
  /\ session # NoSession /\ user = NullUser /\ role = Null /\ ~isLoading

\* C25: an admin's approve or reject decision on an event's venue booking is
\* not overwritten by a later organizer save that leaves the venue as it is
C25_DecisionSurvivesSave ==
  [][\A v \in Venues \cup {Null} :
       ( /\ EditSave(OwnerTab, v)
         /\ v = eventRow.venue_id
         /\ eventRow.venue_booking_status \in {"approved", "rejected"} )
       => eventRow'.venue_booking_status = eventRow.venue_booking_status]_vars

\* C26: an event whose venue_booking_status is pending, approved or rejected
\* has a venue
C26_StatusImpliesVenue ==
  eventRow.venue_booking_status \in {"pending", "approved", "rejected"}
    => eventRow.venue_id # Null

\* C27: the event page enables the purchase of an event that has a venue only
\* once the venue booking is approved
C27_VenueEventNeedsApproval ==
  (pageEvent # NoEvent /\ pageEvent.venue_id # Null /\ ~PurchaseDisabled(pageEvent))
    => pageEvent.venue_booking_status = "approved"

\* C28: the purchase dialog reports a successful purchase only if a user is
\* signed in at the moment it reports, also when the session ends during the
\* payment delay
C28_PurchaseReportedForSignedInUser ==
  [][(DialogFinish /\ purchase' # NoPurchase /\ dialog'.state = "closed")
     => user # NullUser]_vars

\* C30: the venue_booking_status an organizer's save stores is pending if the
\* venue changed to a venue, not_requested if the venue was removed, pending
\* if the venue is the same venue and the form was loaded without a status,
\* and the status loaded with the form otherwise
C30_SavedVenueBookingStatus ==
  [][\A v \in Venues \cup {Null} :
       EditSave(OwnerTab, v)
       => /\ eventRow'.venue_id = v
          /\ eventRow'.venue_booking_status =
               CASE v # editForm.venue_id /\ v # Null -> "pending"
                 [] v # editForm.venue_id /\ v = Null -> "not_requested"
                 [] v = editForm.venue_id /\ v # Null
                      /\ editForm.venue_booking_status = Null -> "pending"
                 [] OTHER -> editForm.venue_booking_status]_vars

\* a save has removed the event's venue
C30_Witness ==
  /\ eventRow # NoEvent /\ eventRow.venue_id = Null
  /\ eventRow.venue_booking_status = "not_requested" /\ editForm = NoEvent

\* C29: the edit page sends an update of an event row only when the
\* controller's user has the role organizer and is the event's organizer; an
\* organizer who opens another organizer's event gets no form data and is
\* sent to their own profile
C29_OnlyOwnerUpdates ==
  [][ /\ \A v \in Venues \cup {Null} :
           EditSave(ThisTab, v)
           => ( /\ user # NullUser /\ role = "organizer"
                /\ user.id = eventRow.organizer_id )
      /\ (EditFormLoad(ThisTab) /\ eventRow.organizer_id # user.id)
           => (editForm' = NoEvent /\ page' = OrganizerRoute) ]_vars

\* the organizer who owns the event has saved it with another venue
C29_Witness ==
  /\ user # NullUser /\ role = "organizer" /\ user.id = eventRow.organizer_id
  /\ eventRow.venue_id = "v2" /\ editForm = NoEvent /\ page = OrganizerRoute
=============================================================================
